---- MODULE Spec2Model ----
(***************************************************************************)
(* Model of src/main.py: a scraper that opens a headless browser on a      *)
(* streaming homepage, discovers the tray titles by scrolling, lets the    *)
(* operator pick one tray and downloads the tray's poster images.          *)
(*                                                                         *)
(* Strings are tuples of one-character strings, so that strip(), lower(),  *)
(* replace(), split() and int() are computed character by character.       *)
(***************************************************************************)
EXTENDS Integers, Sequences, FiniteSets, TLC

\* ------------------------------------------------------------------------
\* Program constants (src/main.py:18-21)
\* ------------------------------------------------------------------------
MAX_SCROLLS == 3
MAX_DOWNLOAD_RETRIES == 3

\* ------------------------------------------------------------------------
\* Bounds of the model
\* ------------------------------------------------------------------------
\* trays in one page snapshot
MaxTrays == 2
\* image entries (hs-image divs) in one tray
MaxImgs == 2
\* operator inputs read in one run
MaxPrompts == 4
\* largest `retries` argument of a direct call of download_image
MaxRetriesArg == 3
\* direct calls of create_output_directory in a row
MaxCalls == 3
MaxScrollsArg == 2

\* ------------------------------------------------------------------------
\* Strings
\* ------------------------------------------------------------------------
Range(s) == {s[i] : i \in 1..Len(s)}

UpperCase == <<"A","B","C","D","E","F","G","H","I","J","K","L","M",
               "N","O","P","Q","R","S","T","U","V","W","X","Y","Z">>
LowerCase == <<"a","b","c","d","e","f","g","h","i","j","k","l","m",
               "n","o","p","q","r","s","t","u","v","w","x","y","z">>
Digits == <<"0","1","2","3","4","5","6","7","8","9">>

\* str.lower(), one character
LowerChar(c) ==
    IF \E i \in 1..Len(UpperCase) : UpperCase[i] = c
    THEN LowerCase[CHOOSE i \in 1..Len(UpperCase) : UpperCase[i] = c]
    ELSE c

\* str.lower()
Lower(s) == [i \in 1..Len(s) |-> LowerChar(s[i])]

IsSpace(c) == c = " "

\* str.strip(): drops the leading and the trailing whitespace
Strip(s) ==
    LET inner == {i \in 1..Len(s) : ~IsSpace(s[i])}
    IN  IF inner = {} THEN <<>>
        ELSE LET lo == CHOOSE i \in inner : \A j \in inner : i <= j
                 hi == CHOOSE i \in inner : \A j \in inner : j <= i
             IN  SubSeq(s, lo, hi)

\* str.replace(old, new) for one-character old and new
Replace(s, old, new) == [i \in 1..Len(s) |-> IF s[i] = old THEN new ELSE s[i]]

\* Sequences over S of length at most n
SeqUpTo(S, n) == UNION {[1..m -> S] : m \in 0..n}

\* ------------------------------------------------------------------------
\* The page: tray containers, their headers and image entries
\* ------------------------------------------------------------------------
\* heading texts as rendered (before strip)
HeadingTexts == { <<" ","T","r">>, <<"T","R">>, <<"N","e">>, <<" ">> }

\* A tray container: `action` says whether it has a div data-testid=action,
\* `h2` whether that div has an h2, `text` is the h2's text.
Trays ==
    {[action |-> FALSE, h2 |-> FALSE, text |-> <<>>],
     [action |-> TRUE,  h2 |-> FALSE, text |-> <<>>]}
    \cup {[action |-> TRUE, h2 |-> TRUE, text |-> t] : t \in HeadingTexts}

\* A page snapshot is the sequence of its tray containers, in document order
Pages == SeqUpTo(Trays, MaxTrays)

\* image URLs found in src attributes of the page
Urls == { <<"h","/","b",".","c",".","x">> }

\* URLs a direct caller of download_image may pass
CallUrls == Urls \cup { <<"h","/","d">> }

\* An image entry (div data-testid=hs-image): `img` says whether it has an
\* inner img tag, `hasSrc` whether img.get("src") is not None, `src` its value.
NoEntry == [img |-> FALSE, hasSrc |-> FALSE, src |-> <<>>]

ImgEntries ==
    {[img |-> FALSE, hasSrc |-> FALSE, src |-> <<>>],
     [img |-> TRUE,  hasSrc |-> FALSE, src |-> <<>>]}
    \cup {[img |-> TRUE, hasSrc |-> TRUE, src |-> u] : u \in Urls \cup {<<>>}}

\* what the operator may type at the prompt
Inputs == { <<"a","b","c">>, <<"0">>, <<"9","9">>, <<"2">>, <<"-","1">>,
            <<" ","1">>, <<"3">>, <<>> }

\* response bodies, by content: a JPEG image, bytes without a magic header,
\* and bytes with a JPEG header that do not decode
Bodies == {"jpeg", "junk", "badjpeg"}

\* folders a direct caller of download_image may pass
Folders == { <<"o","u","t">> }

\* titles a direct caller of create_output_directory may pass
TopPicks == <<"T","o","p"," "," ","P","i","c","k","s">>
CallTitles == { TopPicks, <<"T","r">>, <<"t","r">>, <<"N"," ","e">> }

\* directories that may exist before a direct call of create_output_directory
TopPicksDir == <<"t","o","p","_","_","p","i","c","k","s","_","i","m","a","g","e","s">>
TrDir == <<"t","r","_","i","m","a","g","e","s">>
ExistingDirs == { TopPicksDir, TrDir }

\* ------------------------------------------------------------------------
\* State
\* ------------------------------------------------------------------------
VARIABLES
    pc,              \* position of the run
    caller,          \* "main" for a run of main(), "direct" for a direct call
    launched,        \* a browser instance exists (webdriver.Chrome returned)
    driverBound,     \* main's local `driver` is assigned
    quits,           \* number of driver.quit() calls
    page,            \* what the browser currently renders
    max_scrolls,     \* argument of scroll_until_all_sections_found
    k,               \* index of the discovery loop (the `_` of range)
    section_titles,  \* the accumulated list of titles
    iter_titles,     \* section_titles as it was at the loop head (history)
    raisedAt,        \* step of the discovery loop that raised, or "none"
    scrolls,         \* scroll commands issued by the call (history)
    delays,          \* inter-scroll delays slept by the call (history)
    captures,        \* snapshots captured by the call (history)
    prompts,         \* input() calls of the prompt loop that returned (history)
    reprompts,       \* "Invalid ..." messages of the prompt loop (history)
    lastInput,       \* the string input() returned last
    choice,          \* main's `choice`
    selected_section_title,
    image_folder,    \* main's `image_folder`: what create_output_directory
                     \* returned last
    calls,           \* calls of create_output_directory that returned (history)
    dirs,            \* directories that exist on disk
    files,           \* files that exist on disk
    tray_containers, \* main's soup.find_all(tray-container-base-wrapper)
    t,               \* index of main's loop over tray_containers
    total_images,    \* main's `total_images`
    img_div,         \* main's `img_div`: the image entry read last
    i,               \* main's `i`, 1-based
    completed,       \* the "Completed i/total" record <<i, total>> logged
                     \* after the last call of download_image, if any
    image_url,       \* arguments of download_image
    folder_path,
    retries,
    attempt,         \* download_image's `attempt`
    image_data,      \* download_image's `image_data`: the body fetched last
    gets,            \* HTTP GETs issued by this call (history)
    sleeps,          \* backoff pauses of this call (history)
    dl_result        \* what download_image returned: "true", "false", "none"

browserVars == <<launched, driverBound, quits, page>>
scrollVars == <<max_scrolls, k, section_titles, iter_titles, raisedAt, scrolls,
                delays, captures>>
promptVars == <<prompts, reprompts, lastInput, choice, selected_section_title>>
mainVars == <<image_folder, tray_containers, t, total_images, i, img_div,
              completed>>
diskVars == <<dirs, files, calls>>
dlVars == <<image_url, folder_path, retries, attempt, image_data, gets, sleeps,
           dl_result>>

vars == <<pc, caller, browserVars, scrollVars, promptVars, mainVars, diskVars,
          dlVars>>

\* ------------------------------------------------------------------------
\* Initial state of a run of main()
\* ------------------------------------------------------------------------
InitCommon ==
    /\ launched = FALSE /\ driverBound = FALSE /\ quits = 0
    /\ page = <<>>
    /\ k = 0 /\ section_titles = <<>>
    /\ iter_titles = <<>> /\ raisedAt = "none" /\ scrolls = 0 /\ delays = 0
    /\ captures = 0
    /\ prompts = 0 /\ reprompts = 0 /\ lastInput = <<>> /\ choice = 0
    /\ selected_section_title = <<>>
    /\ image_folder = <<>> /\ tray_containers = <<>> /\ t = 0
    /\ total_images = 0 /\ i = 0 /\ img_div = NoEntry
    /\ completed = <<>>
    /\ files = {} /\ calls = 0
    /\ attempt = 0 /\ image_data = "unset" /\ gets = 0 /\ sleeps = 0
    /\ dl_result = "none"

\* the state a direct caller of the scroll loop starts from: a launched
\* driver that has loaded some page
InitCommonScroll ==
    /\ launched = TRUE /\ driverBound = TRUE /\ quits = 0
    /\ page \in Pages
    /\ k = 0 /\ section_titles = <<>>
    /\ iter_titles = <<>> /\ raisedAt = "none" /\ scrolls = 0 /\ delays = 0
    /\ captures = 0
    /\ prompts = 0 /\ reprompts = 0 /\ lastInput = <<>> /\ choice = 0
    /\ selected_section_title = <<>>
    /\ image_folder = <<>> /\ tray_containers = <<>> /\ t = 0
    /\ total_images = 0 /\ i = 0 /\ img_div = NoEntry
    /\ completed = <<>>
    /\ files = {} /\ calls = 0
    /\ attempt = 0 /\ image_data = "unset" /\ gets = 0 /\ sleeps = 0
    /\ dl_result = "none"

Init ==
    /\ InitCommon
    /\ pc = "setup_chrome" /\ caller = "main"
    /\ max_scrolls = MAX_SCROLLS
    /\ dirs = {}
    /\ image_url = <<>> /\ folder_path = <<>> /\ retries = MAX_DOWNLOAD_RETRIES

\* ------------------------------------------------------------------------
\* setup_webdriver and navigation
\* ------------------------------------------------------------------------
\* webdriver.Chrome(options=options): launches the browser, or raises
SetupChrome ==
    /\ pc = "setup_chrome"
    /\ \/ /\ launched' = TRUE
          /\ pc' = "setup_window"
       \/ /\ launched' = FALSE
          /\ pc' = "except"
    /\ UNCHANGED <<caller, driverBound, quits, page, scrollVars, promptVars,
                   mainVars, diskVars, dlVars>>

\* driver.set_window_size(*WINDOW_SIZE); return driver.  When it raises, the
\* exception leaves setup_webdriver and main's `driver` is never assigned.
SetupWindow ==
    /\ pc = "setup_window"
    /\ \/ /\ driverBound' = TRUE
          /\ pc' = "navigate"
       \/ /\ driverBound' = FALSE
          /\ pc' = "except"
    /\ UNCHANGED <<caller, launched, quits, page, scrollVars, promptVars,
                   mainVars, diskVars, dlVars>>

\* driver.get(HOTSTAR_URL); time.sleep(5); then the call of
\* scroll_until_all_sections_found(driver) with section_titles = []
Navigate ==
    /\ pc = "navigate"
    /\ \/ /\ \E p \in Pages : page' = p
          /\ pc' = "scroll_loop"
       \/ /\ page' = page
          /\ pc' = "except"
    /\ UNCHANGED <<caller, launched, driverBound, quits, scrollVars,
                   promptVars, mainVars, diskVars, dlVars>>

\* ------------------------------------------------------------------------
\* scroll_until_all_sections_found
\* ------------------------------------------------------------------------
\* variant of AddTitle without the membership test
AddTitleDup(titles, text) ==
    LET title == Strip(text)
    IN  IF title # <<>> THEN Append(titles, title) ELSE titles

\* lines 46-48: title = h2_tag.text.strip(); append when non-empty and new
AddTitle(titles, text) ==
    LET title == Strip(text)
    IN  IF title # <<>> /\ title \notin Range(titles)
        THEN Append(titles, title)
        ELSE titles

\* lines 41-48: the loop over the tray containers of one snapshot
RECURSIVE ScanTrays(_, _)
ScanTrays(titles, trays) ==
    IF trays = <<>> THEN titles
    ELSE LET tray == Head(trays)
         IN  ScanTrays(IF tray.action /\ tray.h2
                       THEN AddTitle(titles, tray.text)
                       ELSE titles,
                       Tail(trays))

\* variant of ScrollLoop that runs one iteration more
ScrollLoopInclusive ==
    /\ pc = "scroll_loop"
    /\ IF k <= max_scrolls
       THEN /\ pc' = "scroll_capture"
            /\ iter_titles' = section_titles
       ELSE /\ pc' = "scroll_return"
            /\ iter_titles' = iter_titles
    /\ UNCHANGED <<caller, browserVars, max_scrolls, k, section_titles,
                   raisedAt, scrolls, delays, captures, promptVars, mainVars,
                   diskVars, dlVars>>

\* for _ in range(max_scrolls): the loop head
ScrollLoop ==
    /\ pc = "scroll_loop"
    /\ IF k < max_scrolls
       THEN /\ pc' = "scroll_capture"
            /\ iter_titles' = section_titles
       ELSE /\ pc' = "scroll_return"
            /\ iter_titles' = iter_titles
    /\ UNCHANGED <<caller, browserVars, max_scrolls, k, section_titles,
                   raisedAt, scrolls, delays, captures, promptVars, mainVars,
                   diskVars, dlVars>>

\* driver.page_source: returns the markup, or raises (-> except, break)
ScrollCapture ==
    /\ pc = "scroll_capture"
    /\ \/ /\ pc' = "scroll_parse"
          /\ captures' = captures + 1
          /\ raisedAt' = raisedAt
       \/ /\ pc' = "scroll_return"
          /\ captures' = captures
          /\ raisedAt' = "capture"
    /\ UNCHANGED <<caller, browserVars, max_scrolls, k, section_titles,
                   iter_titles, scrolls, delays, promptVars, mainVars,
                   diskVars, dlVars>>

\* BeautifulSoup(...), find_all and the loop over the trays; the parser may
\* raise before any title of this snapshot is appended
ScrollParse ==
    /\ pc = "scroll_parse"
    /\ \/ /\ section_titles' = ScanTrays(section_titles, page)
          /\ pc' = "scroll_exec"
          /\ raisedAt' = raisedAt
       \/ /\ section_titles' = section_titles
          /\ pc' = "scroll_return"
          /\ raisedAt' = "parse"
    /\ UNCHANGED <<caller, browserVars, max_scrolls, k, iter_titles, scrolls,
                   delays, captures, promptVars, mainVars, diskVars, dlVars>>

\* variant of ScrollExec that drops the titles of the iteration when the
\* scroll command raises
ScrollExecRollback ==
    /\ pc = "scroll_exec"
    /\ \/ /\ \E p \in Pages : page' = p
          /\ scrolls' = scrolls + 1
          /\ pc' = "scroll_sleep"
          /\ UNCHANGED <<raisedAt, section_titles>>
       \/ /\ UNCHANGED <<page, scrolls>>
          /\ section_titles' = iter_titles
          /\ pc' = "scroll_return"
          /\ raisedAt' = "scroll"
    /\ UNCHANGED <<caller, launched, driverBound, quits, max_scrolls, k,
                   iter_titles, delays, captures, promptVars, mainVars,
                   diskVars, dlVars>>

\* driver.execute_script("window.scrollTo(0, document.body.scrollHeight);"):
\* the page may load further content and re-render, or the command raises
ScrollExec ==
    /\ pc = "scroll_exec"
    /\ \/ /\ \E p \in Pages : page' = p
          /\ scrolls' = scrolls + 1
          /\ pc' = "scroll_sleep"
          /\ raisedAt' = raisedAt
       \/ /\ UNCHANGED <<page, scrolls>>
          /\ pc' = "scroll_return"
          /\ raisedAt' = "scroll"
    /\ UNCHANGED <<caller, launched, driverBound, quits, max_scrolls, k,
                   section_titles, iter_titles, delays, captures, promptVars,
                   mainVars, diskVars, dlVars>>

\* variant of ScrollSleep that reads the page once more after the delay
ScrollSleepRescan ==
    /\ pc = "scroll_sleep"
    /\ delays' = delays + 1
    /\ k' = k + 1
    /\ captures' = captures + 1
    /\ section_titles' = ScanTrays(section_titles, page)
    /\ pc' = "scroll_loop"
    /\ UNCHANGED <<caller, browserVars, max_scrolls, iter_titles, raisedAt,
                   scrolls, promptVars, mainVars, diskVars, dlVars>>

\* time.sleep(SCROLL_DELAY), then the next iteration
ScrollSleep ==
    /\ pc = "scroll_sleep"
    /\ delays' = delays + 1
    /\ k' = k + 1
    /\ pc' = "scroll_loop"
    /\ UNCHANGED <<caller, browserVars, max_scrolls, section_titles,
                   iter_titles, raisedAt, scrolls, captures, promptVars, mainVars,
                   diskVars, dlVars>>

\* return section_titles: in main the result is bound to main's
\* section_titles (line 108) and the locals and the histories of the call
\* are dropped
ScrollReturn ==
    /\ pc = "scroll_return"
    /\ IF caller = "main"
       THEN /\ pc' = "check_titles"
            /\ k' = 0 /\ iter_titles' = <<>> /\ raisedAt' = "none"
            /\ scrolls' = 0 /\ delays' = 0 /\ captures' = 0
       ELSE /\ pc' = "done"
            /\ UNCHANGED <<k, iter_titles, raisedAt, scrolls, delays,
                           captures>>
    /\ UNCHANGED <<caller, browserVars, max_scrolls, section_titles,
                   promptVars, mainVars, diskVars, dlVars>>

\* ------------------------------------------------------------------------
\* main: the section menu and the operator's selection
\* ------------------------------------------------------------------------
\* variant of NoSections that never reports an empty list
NoSectionsNever(titles) == Len(titles) < 0

\* line 110: `if not section_titles`
NoSections(titles) == Len(titles) = 0

IsDigit(c) == \E d \in 1..Len(Digits) : Digits[d] = c
DigitVal(c) == (CHOOSE d \in 1..Len(Digits) : Digits[d] = c) - 1

RECURSIVE DigitsVal(_)
DigitsVal(s) ==
    IF s = <<>> THEN 0
    ELSE DigitsVal(SubSeq(s, 1, Len(s) - 1)) * 10 + DigitVal(s[Len(s)])

\* int(s) of Python for the strings of the model: surrounding whitespace is
\* dropped, one sign is allowed, the rest must be one or more digits;
\* ok = FALSE stands for ValueError
ParseInt(s) ==
    LET body == Strip(s)
        signed == body # <<>> /\ body[1] \in {"+", "-"}
        digits == IF signed THEN Tail(body) ELSE body
    IN  IF digits # <<>> /\ \A d \in 1..Len(digits) : IsDigit(digits[d])
        THEN [ok |-> TRUE,
              val |-> IF signed /\ body[1] = "-"
                      THEN 0 - DigitsVal(digits) ELSE DigitsVal(digits)]
        ELSE [ok |-> FALSE, val |-> 0]

\* variant of ValidChoice with a 0-based lower bound
ValidChoiceFromZero(c, titles) == 0 <= c /\ c <= Len(titles)

\* line 122: `1 <= choice <= len(section_titles)`
ValidChoice(c, titles) == 1 <= c /\ c <= Len(titles)

\* lines 110-116: the zero-sections early return, else the printed menu
CheckTitles ==
    /\ pc = "check_titles"
    /\ pc' = IF NoSections(section_titles) THEN "finally" ELSE "prompt"
    /\ UNCHANGED <<caller, browserVars, scrollVars, promptVars, mainVars,
                   diskVars, dlVars>>

\* lines 119-126: one pass of the `while True` loop.  input() returns a
\* string, or raises (EOFError on a closed stdin), which only the top-level
\* handler catches.
Prompt ==
    /\ pc = "prompt"
    /\ prompts < MaxPrompts
    /\ \/ \E inp \in Inputs :
            LET n == ParseInt(inp)
            IN  /\ prompts' = prompts + 1
                /\ lastInput' = inp
                /\ choice' = IF n.ok THEN n.val ELSE choice
                /\ IF n.ok /\ ValidChoice(n.val, section_titles)
                   THEN /\ pc' = "select"
                        /\ reprompts' = reprompts
                   ELSE /\ pc' = "prompt"
                        /\ reprompts' = reprompts + 1
       \/ /\ pc' = "except"
          /\ UNCHANGED <<prompts, reprompts, lastInput, choice>>
    /\ UNCHANGED <<caller, browserVars, scrollVars, selected_section_title,
                   mainVars, diskVars, dlVars>>

\* line 128: selected_section_title = section_titles[choice - 1] (0-based);
\* the histories of the prompt loop are dropped
Select ==
    /\ pc = "select"
    /\ selected_section_title' = section_titles[choice]
    /\ prompts' = 0 /\ reprompts' = 0 /\ lastInput' = <<>>
    /\ pc' = "mkdir"
    /\ UNCHANGED <<caller, browserVars, scrollVars, choice, mainVars,
                   diskVars, dlVars>>

\* ------------------------------------------------------------------------
\* create_output_directory
\* ------------------------------------------------------------------------
ImagesSuffix == <<"_","i","m","a","g","e","s">>

\* variant of FolderName without lower()
FolderNameAsTyped(section_title) ==
    Replace(section_title, " ", "_") \o ImagesSuffix

\* line 95
FolderName(section_title) ==
    Lower(Replace(section_title, " ", "_")) \o ImagesSuffix

\* lines 132, 94-97: os.makedirs(folder_name, exist_ok=True) returns when
\* the directory exists already; when it is missing it creates it, or raises
\* (no permission, a file of that name is there)
CreateOutputDirectory ==
    /\ pc = "mkdir"
    /\ \/ /\ image_folder' = FolderName(selected_section_title)
          /\ dirs' = dirs \cup {FolderName(selected_section_title)}
          /\ calls' = calls + 1
          /\ pc' = IF caller = "main" THEN "snapshot" ELSE "mkdir_idle"
       \/ /\ FolderName(selected_section_title) \notin dirs
          /\ UNCHANGED <<image_folder, dirs, calls>>
          /\ pc' = IF caller = "main" THEN "except" ELSE "raised"
    /\ UNCHANGED <<caller, browserVars, scrollVars, promptVars,
                   tray_containers, t, total_images, i, img_div, completed,
                   files,
                   dlVars>>

\* a direct call create_output_directory(section_title)
CallCreateOutputDirectory ==
    /\ pc = "mkdir_idle"
    /\ calls < MaxCalls
    /\ \E title \in CallTitles : selected_section_title' = title
    /\ pc' = "mkdir"
    /\ UNCHANGED <<caller, browserVars, scrollVars, prompts, reprompts,
                   lastInput, choice, mainVars, diskVars, dlVars>>

\* ------------------------------------------------------------------------
\* main: the final snapshot and the loops over trays and image entries
\* ------------------------------------------------------------------------
\* variant of HeadingMatches that compares the texts as they are
HeadingMatchesExact(tray, selected) ==
    /\ tray.action
    /\ tray.h2
    /\ Strip(tray.text) = selected

\* line 143: h2_tag and h2_tag.text.strip().lower() == selected.lower()
HeadingMatches(tray, selected) ==
    /\ tray.action
    /\ tray.h2
    /\ Lower(Strip(tray.text)) = Lower(selected)

\* variant of HasSource without the test of the src value
HasSourceAttribute(entry) == entry.img /\ entry.hasSrc

\* lines 150-153: the entry has an img tag whose src is a non-empty string
HasSource(entry) == entry.img /\ entry.hasSrc /\ entry.src # <<>>

\* lines 136-137: soup = BeautifulSoup(driver.page_source, ...); find_all
Snapshot ==
    /\ pc = "snapshot"
    /\ \/ /\ tray_containers' = page
          /\ t' = 1
          /\ pc' = "tray_loop"
       \/ /\ UNCHANGED <<tray_containers, t>>
          /\ pc' = "except"
    /\ UNCHANGED <<caller, browserVars, scrollVars, promptVars, image_folder,
                   total_images, i, img_div, completed, diskVars, dlVars>>

\* lines 139-147: the next tray container.  Of the image entries of a
\* matching tray only the number is fixed here; each entry is drawn when the
\* loop reads it, which is its only use.
TrayLoop ==
    /\ pc = "tray_loop"
    /\ IF t > Len(tray_containers)
       THEN /\ pc' = "finally"
            /\ UNCHANGED <<t, total_images, i>>
       ELSE IF HeadingMatches(tray_containers[t], selected_section_title)
            THEN /\ \E n \in 0..MaxImgs : total_images' = n
                 /\ i' = 1
                 /\ t' = t
                 /\ pc' = "img_loop"
            ELSE /\ t' = t + 1
                 /\ pc' = "tray_loop"
                 /\ UNCHANGED <<total_images, i>>
    /\ UNCHANGED <<caller, browserVars, scrollVars, promptVars, image_folder,
                   tray_containers, img_div, completed, diskVars, dlVars>>

\* lines 149-160: the next image entry: a call of download_image, or a
\* warning for an entry without img tag or src
ImgLoop ==
    /\ pc = "img_loop"
    /\ IF i > total_images
       THEN /\ t' = t + 1
            /\ pc' = "tray_loop"
            /\ img_div' = NoEntry
            /\ UNCHANGED <<i, dlVars>>
       ELSE \E entry \in ImgEntries :
            /\ img_div' = entry
            /\ IF HasSource(entry)
               THEN /\ image_url' = entry.src
                    /\ folder_path' = image_folder
                    /\ retries' = MAX_DOWNLOAD_RETRIES
                    /\ attempt' = 0 /\ image_data' = "unset"
                    /\ gets' = 0 /\ sleeps' = 0
                    /\ dl_result' = "none"
                    /\ pc' = "dl_loop"
                    /\ UNCHANGED <<t, i>>
               ELSE /\ i' = i + 1
                    /\ pc' = "img_loop"
                    /\ UNCHANGED <<t, dlVars>>
    /\ UNCHANGED <<caller, browserVars, scrollVars, promptVars, image_folder,
                   tray_containers, total_images, completed, diskVars>>

\* variant of Except whose handler closes the browser itself
ExceptQuits ==
    /\ pc = "except"
    /\ quits' = IF driverBound THEN quits + 1 ELSE quits
    /\ pc' = "finally"
    /\ UNCHANGED <<caller, launched, driverBound, page, scrollVars,
                   promptVars, mainVars, diskVars, dlVars>>

\* lines 162-163: except Exception: logger.error(...)
Except ==
    /\ pc = "except"
    /\ pc' = "finally"
    /\ UNCHANGED <<caller, browserVars, scrollVars, promptVars, mainVars,
                   diskVars, dlVars>>

\* lines 164-166: finally: if 'driver' in locals(): driver.quit()
Finally ==
    /\ pc = "finally"
    /\ quits' = IF driverBound THEN quits + 1 ELSE quits
    /\ pc' = "done"
    /\ UNCHANGED <<caller, launched, driverBound, page, scrollVars,
                   promptVars, mainVars, diskVars, dlVars>>

\* ------------------------------------------------------------------------
\* download_image
\* ------------------------------------------------------------------------
\* filetype.guess(bytes).extension, or "none" when no magic header matches
GuessExtension(body) ==
    CASE body = "jpeg"    -> <<"j","p","g">>
      [] body = "badjpeg" -> <<"j","p","g">>
      [] OTHER            -> <<>>

\* filetype.guess(bytes) is None
KindIsNone(body) == GuessExtension(body) = <<>>

\* Image.open(...) and img.save(...) can decode the bytes
Decodes(body) == body = "jpeg"

\* os.path.basename(url): what follows the last "/"
Basename(url) ==
    LET slashes == {j \in 1..Len(url) : url[j] = "/"}
    IN  IF slashes = {} THEN url
        ELSE SubSeq(url, (CHOOSE j \in slashes : \A m \in slashes : m <= j) + 1,
                    Len(url))

\* s.split('.')[0]: what precedes the first "."
SplitDotFirst(s) ==
    LET dots == {j \in 1..Len(s) : s[j] = "."}
    IN  IF dots = {} THEN s
        ELSE SubSeq(s, 1, (CHOOSE j \in dots : \A m \in dots : j <= m) - 1)

\* os.path.join(folder, name) for a name without "/"
PathJoin(folder, name) ==
    IF folder = <<>> THEN name
    ELSE IF folder[Len(folder)] = "/" THEN folder \o name
    ELSE folder \o <<"/">> \o name

\* lines 77-78
Filename(url, folder, body) ==
    PathJoin(folder, SplitDotFirst(Basename(url)) \o <<".">> \o GuessExtension(body))

\* line 62: for attempt in range(retries); falling off the loop returns None
DlLoop ==
    /\ pc = "dl_loop"
    /\ IF attempt < retries
       THEN /\ pc' = "dl_attempt"
            /\ dl_result' = dl_result
       ELSE /\ pc' = "dl_return"
            /\ dl_result' = "none"
    /\ UNCHANGED <<caller, browserVars, scrollVars, promptVars, mainVars,
                   diskVars, image_url, folder_path, retries, attempt,
                   image_data, gets, sleeps>>

\* lines 64-67: requests.get and raise_for_status: the GET raises (network
\* error, non-success status), or the body is buffered
DlGet ==
    /\ pc = "dl_attempt"
    /\ gets' = gets + 1
    /\ \/ /\ \E body \in Bodies : image_data' = body
          /\ pc' = "dl_sniff"
       \/ /\ image_data' = image_data
          /\ pc' = "dl_except"
    /\ UNCHANGED <<caller, browserVars, scrollVars, promptVars, mainVars,
                   diskVars, image_url, folder_path, retries, attempt, sleeps,
                   dl_result>>

\* variant of DlUnknownType that treats the unknown format as a failed attempt
DlUnknownTypeRetry ==
    /\ pc = "dl_sniff"
    /\ KindIsNone(image_data)
    /\ pc' = "dl_except"
    /\ UNCHANGED <<caller, browserVars, scrollVars, promptVars, mainVars,
                   diskVars, dlVars>>

\* lines 68-72: kind is None: warning, return False
DlUnknownType ==
    /\ pc = "dl_sniff"
    /\ KindIsNone(image_data)
    /\ dl_result' = "false"
    /\ pc' = "dl_return"
    /\ UNCHANGED <<caller, browserVars, scrollVars, promptVars, mainVars,
                   diskVars, image_url, folder_path, retries, attempt,
                   image_data, gets, sleeps>>

\* lines 75, 79: the format is recognized but the bytes do not decode
DlDecodeRaises ==
    /\ pc = "dl_sniff"
    /\ ~KindIsNone(image_data)
    /\ ~Decodes(image_data)
    /\ pc' = "dl_except"
    /\ UNCHANGED <<caller, browserVars, scrollVars, promptVars, mainVars,
                   diskVars, dlVars>>

\* line 79: img.save raises (I/O error; always so when the folder is missing)
DlSaveRaises ==
    /\ pc = "dl_sniff"
    /\ ~KindIsNone(image_data)
    /\ Decodes(image_data)
    /\ pc' = "dl_except"
    /\ UNCHANGED <<caller, browserVars, scrollVars, promptVars, mainVars,
                   diskVars, dlVars>>

\* lines 74-81: the file is written: return True
DlSaved ==
    /\ pc = "dl_sniff"
    /\ ~KindIsNone(image_data)
    /\ Decodes(image_data)
    /\ folder_path \in dirs
    /\ files' = files \cup {Filename(image_url, folder_path, image_data)}
    /\ dl_result' = "true"
    /\ pc' = "dl_return"
    /\ UNCHANGED <<caller, browserVars, scrollVars, promptVars, mainVars,
                   dirs, calls, image_url, folder_path, retries, attempt,
                   image_data, gets, sleeps>>

\* variant of DlExcept that gives up one attempt early
DlExceptEarly ==
    /\ pc = "dl_except"
    /\ IF attempt >= retries - 2
       THEN /\ dl_result' = "false"
            /\ pc' = "dl_return"
            /\ UNCHANGED <<attempt, sleeps, image_data>>
       ELSE /\ sleeps' = sleeps + 1
            /\ attempt' = attempt + 1
            /\ image_data' = "unset"
            /\ pc' = "dl_loop"
            /\ dl_result' = dl_result
    /\ UNCHANGED <<caller, browserVars, scrollVars, promptVars, mainVars,
                   diskVars, image_url, folder_path, retries, gets>>

\* variant of DlExcept that re-raises on the last attempt, so that the
\* exception reaches the caller
DlExceptReraise ==
    /\ pc = "dl_except"
    /\ IF attempt = retries - 1
       THEN /\ pc' = IF caller = "main" THEN "except" ELSE "done"
            /\ UNCHANGED <<attempt, sleeps, dl_result, image_data>>
       ELSE /\ sleeps' = sleeps + 1
            /\ attempt' = attempt + 1
            /\ image_data' = "unset"
            /\ pc' = "dl_loop"
            /\ dl_result' = dl_result
    /\ UNCHANGED <<caller, browserVars, scrollVars, promptVars, mainVars,
                   diskVars, image_url, folder_path, retries, gets>>

\* variant of DlExcept that pauses before it looks at the attempt number
DlExceptPauseFirst ==
    /\ pc = "dl_except"
    /\ sleeps' = sleeps + 1
    /\ IF attempt = retries - 1
       THEN /\ dl_result' = "false"
            /\ pc' = "dl_return"
            /\ UNCHANGED <<attempt, image_data>>
       ELSE /\ attempt' = attempt + 1
            /\ image_data' = "unset"
            /\ pc' = "dl_loop"
            /\ dl_result' = dl_result
    /\ UNCHANGED <<caller, browserVars, scrollVars, promptVars, mainVars,
                   diskVars, image_url, folder_path, retries, gets>>

\* lines 83-87: except Exception: give up on the last attempt, else pause
\* one second and go on with the next attempt (the body of the failed
\* attempt is not read again and is dropped)
DlExcept ==
    /\ pc = "dl_except"
    /\ IF attempt = retries - 1
       THEN /\ dl_result' = "false"
            /\ pc' = "dl_return"
            /\ UNCHANGED <<attempt, sleeps, image_data>>
       ELSE /\ sleeps' = sleeps + 1
            /\ attempt' = attempt + 1
            /\ image_data' = "unset"
            /\ pc' = "dl_loop"
            /\ dl_result' = dl_result
    /\ UNCHANGED <<caller, browserVars, scrollVars, promptVars, mainVars,
                   diskVars, image_url, folder_path, retries, gets>>

\* the return to the caller; in main, lines 154-156: success = ...;
\* if success: logger.info(f"Completed {i}/{total_images}"), then the next
\* image entry; the locals and the histories of the call are dropped
DlReturn ==
    /\ pc = "dl_return"
    /\ IF caller = "main"
       THEN /\ completed' = IF dl_result = "true"
                            THEN <<i, total_images>>
                            ELSE <<>>
            /\ i' = i + 1
            /\ pc' = "img_loop"
            /\ image_url' = <<>> /\ attempt' = 0 /\ image_data' = "unset"
            /\ gets' = 0 /\ sleeps' = 0 /\ dl_result' = "none"
            /\ img_div' = NoEntry
       ELSE /\ pc' = "done"
            /\ UNCHANGED <<completed, i, img_div, image_url, attempt, image_data, gets,
                           sleeps, dl_result>>
    /\ UNCHANGED <<caller, browserVars, scrollVars, promptVars, image_folder,
                   tray_containers, t, total_images, diskVars, folder_path,
                   retries>>

\* ------------------------------------------------------------------------
\* Specifications
\* ------------------------------------------------------------------------
DownloadImage ==
    \/ DlLoop
    \/ DlGet
    \/ DlUnknownType
    \/ DlDecodeRaises
    \/ DlSaveRaises
    \/ DlSaved
    \/ DlExcept
    \/ DlReturn

\* a run of main()
Next ==
    \/ SetupChrome
    \/ SetupWindow
    \/ Navigate
    \/ ScrollLoop
    \/ ScrollCapture
    \/ ScrollParse
    \/ ScrollExec
    \/ ScrollSleep
    \/ ScrollReturn
    \/ CheckTitles
    \/ Prompt
    \/ Select
    \/ CreateOutputDirectory
    \/ Snapshot
    \/ TrayLoop
    \/ ImgLoop
    \/ DownloadImage
    \/ Except
    \/ Finally

Spec == Init /\ [][Next]_vars

\* a direct call download_image(url, folder, retries)
InitDownload ==
    /\ InitCommon
    /\ pc = "dl_loop" /\ caller = "direct"
    /\ max_scrolls = MAX_SCROLLS
    /\ image_url \in CallUrls
    /\ folder_path \in Folders
    /\ retries \in 0..MaxRetriesArg
    /\ dirs \in {{}, {folder_path}}

NextDownload == DownloadImage

SpecDownload == InitDownload /\ [][NextDownload]_vars

\* direct calls of create_output_directory, one after the other
InitCreate ==
    /\ InitCommon
    /\ pc = "mkdir_idle" /\ caller = "direct"
    /\ max_scrolls = MAX_SCROLLS
    /\ dirs \in SUBSET ExistingDirs
    /\ image_url = <<>> /\ folder_path = <<>> /\ retries = MAX_DOWNLOAD_RETRIES

NextCreate ==
    \/ CallCreateOutputDirectory
    \/ CreateOutputDirectory

SpecCreate == InitCreate /\ [][NextCreate]_vars

\* a direct call scroll_until_all_sections_found(driver, max_scrolls) on a
\* loaded page
InitScroll ==
    /\ InitCommonScroll
    /\ pc = "scroll_loop" /\ caller = "direct"
    /\ max_scrolls \in 0..MaxScrollsArg
    /\ dirs = {}
    /\ image_url = <<>> /\ folder_path = <<>> /\ retries = MAX_DOWNLOAD_RETRIES

NextScroll ==
    \/ ScrollLoop
    \/ ScrollCapture
    \/ ScrollParse
    \/ ScrollExec
    \/ ScrollSleep
    \/ ScrollReturn

SpecScroll == InitScroll /\ [][NextScroll]_vars

\* the interpreter runs the call step after step: a statement that can be
\* executed is executed
FairScroll == InitScroll /\ [][NextScroll]_vars /\ WF_vars(NextScroll)

TypeOK ==
    /\ pc \in {"setup_chrome", "setup_window", "navigate", "scroll_loop",
               "scroll_capture", "scroll_parse", "scroll_exec", "scroll_sleep",
               "scroll_return", "check_titles", "prompt", "select", "mkdir",
               "snapshot", "tray_loop", "img_loop", "dl_loop", "dl_attempt",
               "dl_sniff", "dl_except", "dl_return", "except", "finally", "done",
               "mkdir_idle", "raised"}
    /\ quits \in 0..1
    /\ k \in 0..max_scrolls
    /\ dl_result \in {"true", "false", "none"}

\* ------------------------------------------------------------------------
\* Reference definitions used by the properties
\* ------------------------------------------------------------------------
ScrollPcs == {"scroll_loop", "scroll_capture", "scroll_parse", "scroll_exec",
              "scroll_sleep", "scroll_return"}
DlPcs == {"dl_loop", "dl_attempt", "dl_sniff", "dl_except", "dl_return"}

NoDup(s) == \A a, b \in 1..Len(s) : a # b => s[a] # s[b]

\* the non-empty trimmed headings of a snapshot, in document order
HeadTitles(trays) ==
    LET Headed(tr) == tr.action /\ tr.h2 /\ Strip(tr.text) # <<>>
        headed == SelectSeq(trays, Headed)
    IN  [j \in 1..Len(headed) |-> Strip(headed[j].text)]

\* s without the later occurrences of each element
FirstSeen(s) ==
    LET keep == {j \in 1..Len(s) : \A m \in 1..(j - 1) : s[m] # s[j]}
        Nth(n) == CHOOSE j \in keep : Cardinality({m \in keep : m <= j}) = n
    IN  [n \in 1..Cardinality(keep) |-> s[Nth(n)]]

\* a and b are the same letter in either case
SameLetter(a, b) ==
    \/ a = b
    \/ \E n \in 1..Len(UpperCase) : {a, b} = {UpperCase[n], LowerCase[n]}

\* a and b are equal up to the case of their letters
SameIgnoringCase(a, b) ==
    /\ Len(a) = Len(b)
    /\ \A j \in 1..Len(a) : SameLetter(a[j], b[j])

\* the tray has a heading that reads `title` up to case and outer blanks
TrayReads(tray, title) ==
    /\ tray.action
    /\ tray.h2
    /\ SameIgnoringCase(Strip(tray.text), title)

\* the number each input of the model denotes; non-numeric inputs denote none
Denotes(inp) ==
    CASE inp = <<"0">>      -> {0}
      [] inp = <<"9","9">>  -> {99}
      [] inp = <<"2">>      -> {2}
      [] inp = <<"-","1">>  -> {0 - 1}
      [] inp = <<" ","1">>  -> {1}
      [] inp = <<"3">>      -> {3}
      [] OTHER              -> {}

\* the folder of each title a direct caller passes, written out
ExpectedFolder(title) ==
    CASE title = TopPicks       -> TopPicksDir
      [] title = <<"T","r">>    -> TrDir
      [] title = <<"t","r">>    -> TrDir
      [] title = <<"N"," ","e">> -> <<"n","_","e","_","i","m","a","g","e","s">>
      [] OTHER                  -> <<>>

\* ------------------------------------------------------------------------
\* Properties
\* ------------------------------------------------------------------------

\* C1: the accumulated title list never holds a title twice, it changes only
\* when a snapshot is parsed, and parsing a snapshot turns it into the
\* first-seen order of the old list followed by the snapshot's non-empty
\* trimmed headings in document order.
C1_FirstSeenOrder ==
    /\ [](NoDup(section_titles))
    /\ [][section_titles' # section_titles => pc = "scroll_parse"]_vars
    /\ [][pc = "scroll_parse" /\ pc' = "scroll_exec" =>
            section_titles' = FirstSeen(section_titles \o HeadTitles(page))]_vars

\* three passes, each bringing one new title, the third repeating an old one
C1_Witness ==
    /\ pc = "scroll_exec"
    /\ k = 2
    /\ Len(iter_titles) = 2
    /\ Len(section_titles) = 3
    /\ \E j \in 1..Len(HeadTitles(page)) : HeadTitles(page)[j] \in Range(iter_titles)

\* C2 as stated: whichever step of iteration 2 raises, the call returns the
\* titles accumulated through iteration 1.
C2_Original ==
    (pc = "scroll_return" /\ max_scrolls = 3 /\ k = 1 /\ raisedAt # "none")
        => section_titles = iter_titles

\* C2 amended: an exception in iteration 2 raised by the snapshot capture or
\* the parser returns the titles accumulated through iteration 1; one raised
\* by the scroll command returns the titles accumulated through iteration 2
\* (those of iteration 1 followed by the new titles of the second snapshot);
\* in every case the exception ends the loop and the call returns.
C2_PartialResults ==
    /\ []((pc = "scroll_return" /\ max_scrolls = 3 /\ k = 1) =>
            /\ raisedAt \in {"capture", "parse"} => section_titles = iter_titles
            /\ raisedAt = "scroll" =>
                 section_titles = FirstSeen(iter_titles \o HeadTitles(page)))
    /\ [][raisedAt' # raisedAt /\ raisedAt' # "none" => pc' = "scroll_return"]_vars

\* the scroll command of iteration 2 raised after new titles were appended
C2_Witness ==
    /\ pc = "scroll_return"
    /\ k = 1
    /\ raisedAt = "scroll"
    /\ iter_titles # <<>>
    /\ section_titles # iter_titles

\* C3: a run that launched a browser and has ended has terminated the session.
C3_Teardown == (pc = "done" /\ launched) => quits = 1

\* C4: a call issues at most `retries` GETs; a written file ends the call
\* with True at that attempt, all earlier attempts having raised; the handler
\* returns False only when `retries` GETs have been issued.
C4_BoundedAttempts ==
    /\ [](gets <= retries)
    /\ []((pc = "dl_return" /\ dl_result = "true") =>
            /\ gets = attempt + 1
            /\ sleeps = attempt
            /\ Filename(image_url, folder_path, image_data) \in files)
    /\ [][(pc = "dl_sniff" /\ files' # files) =>
            (pc' = "dl_return" /\ dl_result' = "true")]_vars
    /\ [][(pc = "dl_except" /\ dl_result' = "false") =>
            (gets = retries /\ sleeps = retries - 1)]_vars

\* two attempts raised, the third wrote the file
C4_Witness ==
    /\ pc = "dl_return"
    /\ retries = 3
    /\ gets = 3
    /\ dl_result = "true"
    /\ Cardinality(files) = 1

\* C5: a fetched body without recognizable format ends the call with False
\* at that attempt without GET, pause or file; a returned call issues nothing
\* more; with such a body at the first fetch there was exactly one GET.
C5_UnknownTypeFinal ==
    /\ [][(pc = "dl_sniff" /\ image_data = "junk") =>
            /\ pc' = "dl_return"
            /\ dl_result' = "false"
            /\ gets' = gets /\ sleeps' = sleeps /\ files' = files]_vars
    /\ [][(pc \in {"dl_return", "done"}) =>
            (gets' = gets /\ sleeps' = sleeps /\ files' = files)]_vars
    /\ []((pc \in {"dl_return", "done"} /\ image_data = "junk") =>
            /\ dl_result = "false"
            /\ gets = attempt + 1
            /\ sleeps = attempt
            /\ files = {})

\* the first fetch of a call with three retries brought unrecognizable bytes
C5_Witness ==
    /\ pc = "done"
    /\ retries = 3
    /\ image_data = "junk"
    /\ gets = 1
    /\ dl_result = "false"

\* C6: every input that is not a number, or is a number outside
\* 1..len(section_titles), is answered by a new prompt; the loop is left for
\* the selection only with a number in that range, and the selected title is
\* the one at that position.
C6_Selection ==
    /\ [][(pc = "prompt" /\ prompts' = prompts + 1) =>
            IF \E n \in Denotes(lastInput') : 1 <= n /\ n <= Len(section_titles)
            THEN pc' = "select" /\ reprompts' = reprompts
                 /\ choice' \in Denotes(lastInput')
            ELSE pc' = "prompt" /\ reprompts' = reprompts + 1]_vars
    /\ [][(pc = "prompt" /\ pc' # "prompt") =>
            (pc' = "except" \/ prompts' = prompts + 1)]_vars
    /\ [](pc \in {"mkdir", "snapshot", "tray_loop", "img_loop"} \cup DlPcs =>
            /\ choice \in 1..Len(section_titles)
            /\ selected_section_title = section_titles[choice])

\* three prompts re-issued, then "2" selects the second of three titles
C6_Witness ==
    /\ pc = "select"
    /\ Len(section_titles) = 3
    /\ reprompts = 3
    /\ lastInput = <<"2">>
    /\ choice = 2

\* C7: an image is downloaded only from the first tray in document order
\* whose heading matches the selected title.
C7_FirstMatchOnly ==
    [][(pc = "img_loop" /\ pc' = "dl_loop") =>
        \A u \in 1..(t - 1) :
            ~TrayReads(tray_containers[u], selected_section_title)]_vars

\* C8: a tray is used exactly when its trimmed heading equals the selected
\* title up to case; without such a tray no image entry is read and no
\* download is called, and the run goes to the session teardown.
C8_CaseInsensitiveTray ==
    /\ [][(pc = "tray_loop" /\ t <= Len(tray_containers)) =>
            (pc' = "img_loop" <=>
                TrayReads(tray_containers[t], selected_section_title))]_vars
    /\ [](pc \in {"img_loop"} \cup DlPcs =>
            \E u \in 1..Len(tray_containers) :
                TrayReads(tray_containers[u], selected_section_title))
    /\ [][(pc = "tray_loop" /\ t > Len(tray_containers)) => pc' = "finally"]_vars
    /\ [][(pc = "finally") => (pc' = "done" /\ (driverBound => quits' = 1))]_vars

\* the tray headed "TR" is used for the selected title "Tr"
C8_Witness ==
    /\ pc = "img_loop"
    /\ selected_section_title = <<"T","r">>
    /\ tray_containers[t].text = <<"T","R">>

\* C9: with zero titles the run goes from the check straight to the
\* teardown: no prompt, no directory, no download, and the session is ended.
C9_NoSections ==
    /\ [][(pc = "check_titles" /\ section_titles = <<>>) => pc' = "finally"]_vars
    /\ [](section_titles = <<>> =>
            /\ pc \notin {"prompt", "select", "mkdir", "snapshot", "tray_loop",
                          "img_loop"} \cup DlPcs
            /\ prompts = 0 /\ choice = 0
            /\ dirs = {} /\ files = {} /\ gets = 0)
    /\ []((pc = "done" /\ driverBound) => quits = 1)

\* a run that navigated, found no title and ended with the session closed
C9_Witness ==
    /\ pc = "done"
    /\ page # <<>>
    /\ section_titles = <<>>
    /\ quits = 1

\* C10: an attempt that raises never leaves download_image: the call goes on
\* to the next attempt or returns; main receives True or False, and after
\* False it goes on to the next image entry of the same tray.
C10_FailureIsFalse ==
    /\ [][(pc \in {"dl_attempt", "dl_sniff", "dl_except"}) => pc' \in DlPcs]_vars
    /\ [][(pc = "dl_except" /\ pc' = "dl_return") => dl_result' = "false"]_vars
    /\ []((pc = "dl_return" /\ caller = "main") => dl_result \in {"true", "false"})
    /\ [][(pc = "dl_return" /\ caller = "main" /\ dl_result = "false") =>
            (pc' = "img_loop" /\ i' = i + 1 /\ t' = t /\ completed' = <<>>)]_vars

\* all three attempts raised and another image entry follows
C10_Witness ==
    /\ pc = "dl_return"
    /\ caller = "main"
    /\ dl_result = "false"
    /\ gets = 3
    /\ sleeps = 2
    /\ image_data # "junk"
    /\ i < total_images

\* C11: every call of create_output_directory returns the folder name of
\* its title (spaces replaced one by one, lowercased, "_images" appended),
\* whatever was called before; it creates no other directory; and when the
\* directory exists already it returns without error and leaves the disk
\* as it was.
C11_IdempotentDirectory ==
    /\ []((pc = "mkdir_idle" /\ calls > 0) =>
            /\ image_folder = ExpectedFolder(selected_section_title)
            /\ image_folder \in dirs)
    /\ [][(pc = "mkdir") =>
            dirs' \subseteq dirs \cup {ExpectedFolder(selected_section_title)}]_vars
    /\ [][(pc = "mkdir" /\ ExpectedFolder(selected_section_title) \in dirs) =>
            /\ pc' \in {"mkdir_idle", "snapshot"}
            /\ calls' = calls + 1
            /\ dirs' = dirs
            /\ image_folder' = ExpectedFolder(selected_section_title)]_vars

\* "Top  Picks" passed twice: one directory, the same name both times
C11_Witness ==
    /\ pc = "mkdir_idle"
    /\ calls = 2
    /\ selected_section_title = TopPicks
    /\ image_folder = TopPicksDir
    /\ dirs = {TopPicksDir}

\* C12: a call of scroll_until_all_sections_found ends; it captures at
\* most max_scrolls snapshots and issues at most max_scrolls scroll
\* commands; one delay follows each scroll that succeeded; the step that
\* raises goes straight to the return, with no snapshot, scroll or delay
\* after it, and the titles gathered so far are what the call returns.
C12_ScrollTerminates ==
    /\ <>(pc = "done")
    /\ [](captures <= max_scrolls /\ scrolls <= max_scrolls)
    /\ [](delays <= scrolls /\ scrolls <= delays + 1)
    /\ []((pc = "scroll_loop") => (delays = scrolls))
    /\ [][(scrolls' = scrolls + 1) => (pc' = "scroll_sleep")]_vars
    /\ [][(pc = "scroll_sleep") => (delays' = delays + 1)]_vars
    /\ [][(raisedAt = "none" /\ raisedAt' # "none") =>
            /\ pc' = "scroll_return"
            /\ UNCHANGED <<captures, scrolls, delays>>]_vars
    /\ [][(raisedAt # "none") =>
            /\ pc' = "done"
            /\ UNCHANGED <<captures, scrolls, delays, section_titles,
                           raisedAt>>]_vars

\* the second scroll command raised: two snapshots, one scroll, one delay,
\* and the titles of the snapshots are returned
C12_Witness ==
    /\ pc = "done"
    /\ max_scrolls = 2
    /\ raisedAt = "scroll"
    /\ captures = 2 /\ scrolls = 1 /\ delays = 1
    /\ Len(section_titles) = 2

\* C13: download_image pauses (one time.sleep(1)) exactly when an attempt
\* raised and another attempt follows: never after the last permitted
\* attempt, after a success or after an unrecognized format; so a call that
\* returns has paused once per attempt before the one that decided it, and a
\* call whose attempts all raised has paused retries - 1 times.
C13_BackoffPauses ==
    /\ [][(sleeps' # sleeps) =>
            /\ pc = "dl_except"
            /\ attempt < retries - 1
            /\ sleeps' = sleeps + 1
            /\ attempt' = attempt + 1
            /\ attempt' < retries
            /\ pc' = "dl_loop"]_vars
    /\ [][(pc = "dl_except" /\ attempt < retries - 1) =>
            (sleeps' = sleeps + 1)]_vars
    /\ [](sleeps = attempt)
    /\ []((pc = "done" /\ dl_result = "false" /\ image_data # "junk") =>
            /\ sleeps = retries - 1
            /\ gets = retries)
    /\ []((pc = "done" /\ dl_result = "true") => (sleeps = gets - 1))
    /\ []((pc = "done" /\ image_data = "junk") =>
            (dl_result = "false" /\ sleeps = gets - 1))

\* two attempts permitted, both raised: one pause
C13_Witness ==
    /\ pc = "done"
    /\ caller = "direct"
    /\ retries = 2
    /\ dl_result = "false"
    /\ image_data # "junk"
    /\ gets = 2
    /\ sleeps = 1

\* the entry carries an img tag with a src of at least one character
Downloadable(entry) == entry.img /\ entry.hasSrc /\ Len(entry.src) > 0

\* C14: in the selected tray an image entry with an img tag and a
\* non-empty src gets one call of download_image with that src and main's
\* folder, and the loop moves to the next entry when the call returns; an
\* entry without img tag or src is passed over with no call, no GET and no
\* file, and the loop goes on with the next entry; "Completed i/total" is
\* logged exactly when the call returned True, with i the position of the
\* entry and i <= total.
C14_OneCallPerEntry ==
    /\ [][(pc = "img_loop" /\ i <= total_images /\ Downloadable(img_div')) =>
            /\ pc' = "dl_loop"
            /\ image_url' = img_div'.src
            /\ folder_path' = image_folder
            /\ i' = i]_vars
    /\ [][(pc = "img_loop" /\ i <= total_images /\ ~Downloadable(img_div')) =>
            /\ pc' = "img_loop"
            /\ i' = i + 1
            /\ UNCHANGED <<gets, files, completed, image_url>>]_vars
    /\ [][(pc' = "dl_loop" /\ pc # "dl_loop" /\ pc # "dl_except") =>
            (pc = "img_loop" /\ Downloadable(img_div'))]_vars
    /\ [][(pc \in DlPcs /\ pc # "dl_return") =>
            UNCHANGED <<i, t, image_url, img_div, completed>>]_vars
    /\ [][(pc = "dl_return") =>
            /\ pc' = "img_loop"
            /\ i' = i + 1
            /\ completed' = IF dl_result = "true"
                            THEN <<i, total_images>> ELSE <<>>]_vars
    /\ [][(pc # "dl_return") => (completed' = completed)]_vars
    /\ [](completed # <<>> =>
            (completed[1] >= 1 /\ completed[1] <= completed[2]))
    /\ [][(i' # i) => (i' = i + 1 \/ (pc = "tray_loop" /\ i' = 1))]_vars

\* entry 1 of 2 was downloaded and logged "Completed 1/2"; entry 2, whose
\* src is empty, has just been passed over
C14_Witness ==
    /\ pc = "img_loop"
    /\ total_images = 2
    /\ i = 3
    /\ completed = <<1, 2>>
    /\ img_div.img /\ img_div.hasSrc /\ img_div.src = <<>>
    /\ files # {}

\* C15: whatever the url, the folder and retries >= 0, a call of
\* download_image that has returned has returned True or False.
C15_ReturnsBoolean ==
    (pc = "done") => (dl_result \in {"true", "false"})

\* the name with what follows its last "." removed (the name itself when it
\* has no ".")
WithoutExtension(name) ==
    LET dots == {j \in 1..Len(name) : name[j] = "."}
    IN  IF dots = {} THEN name
        ELSE SubSeq(name, 1, (CHOOSE j \in dots : \A m \in dots : m <= j) - 1)

\* C16: a file that download_image wrote is at folder_path joined with the
\* basename of the URL with only its extension removed, then "." and the
\* sniffed extension.
C16_OnlyExtensionRemoved ==
    \A f \in files :
        f = folder_path \o <<"/">> \o WithoutExtension(Basename(image_url))
              \o <<".", "j", "p", "g">>

\* C17: in the discovery loop the snapshot of an iteration is captured
\* before the scroll command of that iteration, and once max_scrolls scroll
\* commands have been issued nothing is captured and no title is added; the
\* list stays as returned for the rest of the run and the selected title is
\* taken from it, while main's later snapshot is the page as the last scroll
\* left it.
C17_NoSnapshotAfterLastScroll ==
    /\ [][(scrolls' = scrolls + 1) =>
            (pc = "scroll_exec" /\ captures = scrolls + 1)]_vars
    /\ [][(captures' = captures + 1) =>
            (pc = "scroll_capture" /\ captures = scrolls
               /\ scrolls < max_scrolls)]_vars
    /\ [][(pc \in ScrollPcs /\ scrolls = max_scrolls) =>
            (section_titles' = section_titles /\ page' = page)]_vars
    /\ [][(pc \notin ScrollPcs /\ pc # "navigate" /\ pc # "setup_chrome"
             /\ pc # "setup_window") =>
            (section_titles' = section_titles /\ page' = page)]_vars
    /\ []((pc \in {"mkdir", "snapshot", "tray_loop", "img_loop"} \cup DlPcs) =>
            (\E n \in 1..Len(section_titles) :
                 selected_section_title = section_titles[n]))
    /\ [][(pc = "snapshot" /\ pc' = "tray_loop") =>
            (tray_containers' = page)]_vars

\* all three scroll commands were issued and the page the last one left
\* shows a heading that is not in the list about to be returned
C17_Witness ==
    /\ pc = "scroll_return"
    /\ caller = "main"
    /\ raisedAt = "none"
    /\ scrolls = max_scrolls
    /\ captures = max_scrolls
    /\ \E n \in 1..Len(HeadTitles(page)) :
           \A m \in 1..Len(section_titles) :
               HeadTitles(page)[n] # section_titles[m]

\* C18: in a run of main the session is quit at most once and nothing runs
\* after it: navigation, page reads and scroll commands happen on a launched
\* driver that has not been quit; every step of download_image, and so every
\* GET and every file written, happens after create_output_directory has
\* returned the folder the call is given, with that folder on disk, and
\* before the session is quit.
C18_SessionOrder ==
    /\ [](quits <= 1)
    /\ [][quits = 0]_vars
    /\ []((quits >= 1) => (pc = "done"))
    /\ []((pc \in {"navigate", "snapshot"} \cup ScrollPcs) =>
            (launched /\ driverBound /\ quits = 0))
    /\ []((pc \in DlPcs) =>
            /\ quits = 0
            /\ calls = 1
            /\ folder_path = image_folder
            /\ image_folder \in dirs)
    /\ [][(gets' = gets + 1 \/ files' # files) =>
            (pc \in DlPcs /\ calls = 1 /\ quits' = 0)]_vars

\* a run that wrote a file into its folder and then quit the session
C18_Witness ==
    /\ pc = "done"
    /\ caller = "main"
    /\ quits = 1
    /\ calls = 1
    /\ image_folder \in dirs
    /\ files # {}

====
